---- MODULE Spec2Model ----
(***************************************************************************)
(* "Run Away from Cats": the game field of src/run_from_cats/__init__.py   *)
(* and the turn that Bot.proceed_message plays on it.                      *)
(*                                                                         *)
(* The field is a FIELD_SIZE x FIELD_SIZE grid of Position objects.  A     *)
(* Position carries its own coordinates (x = row, y = column) next to its  *)
(* symbol, and the code reads the coordinates STORED in the centre object  *)
(* when it measures distances, so the model keeps them per object.         *)
(***************************************************************************)
EXTENDS Integers, Sequences, FiniteSets, TLC

(***************************************************************************)
(* Module constants of the program.                                        *)
(***************************************************************************)
FIELD_SIZE == 5
MIDDLE_POS == (FIELD_SIZE - 1) \div 2
\* generate_obstacles(obstacles_number = 3)
obstacles_number == 3

PLAYER_SYMBOL == "player"
CAT_SYMBOL == "cat"
OBSTACLE_SYMBOL == "obstacle"
EMPTY_SYMBOL == "empty"

\* DIRECTIONS without the inversion.
DIRECTIONS_same == [left |-> "left", right |-> "right", up |-> "up", down |-> "down"]

DIRECTIONS == [left |-> "right", right |-> "left", up |-> "down", down |-> "up"]

\* POSITIONS_TO_CHECK_CATS with a wrong last entry.
POSITIONS_TO_CHECK_CATS_bad ==
    << <<MIDDLE_POS, MIDDLE_POS - 1>>, <<MIDDLE_POS, MIDDLE_POS + 1>>,
       <<MIDDLE_POS - 1, MIDDLE_POS>>, <<MIDDLE_POS + 1, MIDDLE_POS + 1>> >>

POSITIONS_TO_CHECK_CATS ==
    << <<MIDDLE_POS, MIDDLE_POS - 1>>, <<MIDDLE_POS, MIDDLE_POS + 1>>,
       <<MIDDLE_POS - 1, MIDDLE_POS>>, <<MIDDLE_POS + 1, MIDDLE_POS>> >>

(***************************************************************************)
(* Bounds of the model.                                                    *)
(***************************************************************************)
\* Turns played on one board before the model stops the game.
MaxTurns == 3
\* Turns of the siege.
MaxSiegeTurns == 22
\* Cells the spawner chooses among in a turn of the siege.
SiegeChoices == 2

\* range(FIELD_SIZE)
Idx == 0 .. (FIELD_SIZE - 1)

(***************************************************************************)
(* The values the random source may return.  The All* sets are the full    *)
(* ranges of the calls; the other sets are the draws the bounded game      *)
(* explores.                                                               *)
(***************************************************************************)
\* generate_cats: <<random_coordinate, index chosen by random.choice>>
AllCatDraws == Idx \X (1 .. 4)
\* generate_obstacles: <<x, y>>
AllObstacleDraws == Idx \X Idx
\* move_objects left/right: the two values of random_row
AllRowDraws == [1 .. 2 -> Idx]
\* generate_row: the FIELD_SIZE // 3 cells picked by random.choice
AllRowPicks == [1 .. (FIELD_SIZE \div 3) -> Idx]

CatDraws == {<<4, 3>>, <<2, 4>>, <<2, 1>>}
ObstacleDraws == {<<4, 4>>, <<1, 2>>, <<1, 1>>, <<0, 3>>}
RowDraws == {<<0, 4>>, <<1, 1>>}
RowPicks == {<<0>>, <<3>>}

\* The siege: a cat straight below the player, obstacles above it.
SiegeCatDraws == {<<2, 2>>}
SiegeObstacleDraws == {<<1, 2>>, <<1, 1>>, <<1, 3>>}

(***************************************************************************)
(* class Position                                                          *)
(***************************************************************************)
Position(x, y, data) == [x |-> x, y |-> y, data |-> data]

Abs(n) == IF n < 0 THEN 0 - n ELSE n

\* Position.manhattan(other_position) for a tuple argument
manhattan(self, other_position) ==
    Abs(self.x - other_position[1]) + Abs(self.y - other_position[2])

(***************************************************************************)
(* class GameField                                                         *)
(***************************************************************************)
\* generate_row that puts no obstacle on the row.
generate_row_bare(row_index, picks) ==
    [col \in Idx |-> Position(row_index, col, EMPTY_SYMBOL)]

\* generate_row that puts an obstacle on every column from the first
\* chosen one on.
generate_row_filled(row_index, picks) ==
    [col \in Idx |->
        Position(row_index, col,
                 IF \E i \in DOMAIN picks : picks[i] <= col
                 THEN OBSTACLE_SYMBOL ELSE EMPTY_SYMBOL)]

generate_row(row_index, picks) ==
    [col \in Idx |->
        Position(row_index, col,
                 IF \E i \in DOMAIN picks : picks[i] = col
                 THEN OBSTACLE_SYMBOL ELSE EMPTY_SYMBOL)]

generate_clear ==
    [row \in Idx |-> [col \in Idx |->
        Position(row, col,
                 IF row = MIDDLE_POS /\ col = MIDDLE_POS
                 THEN PLAYER_SYMBOL ELSE EMPTY_SYMBOL)]]

possible_cats_positions(random_coordinate) ==
    << <<0, random_coordinate>>, <<FIELD_SIZE - 1, random_coordinate>>,
       <<random_coordinate, 0>>, <<random_coordinate, FIELD_SIZE - 1>> >>

new_cat_position(draw) == possible_cats_positions(draw[1])[draw[2]]

\* The two `continue` tests of generate_cats: TRUE when the draw is kept.
cat_draw_accepted(f, draw) ==
    LET pos == new_cat_position(draw)
    IN  /\ ~ (f[pos[1]][pos[2]].data # EMPTY_SYMBOL)
        /\ ~ (manhattan(f[MIDDLE_POS][MIDDLE_POS], pos) < 2)

\* generate_cats that writes the cat with its two indices swapped.
generate_cats_transposed(f, draw) ==
    LET pos == new_cat_position(draw)
    IN  [f EXCEPT ![pos[2]][pos[1]].data = CAT_SYMBOL]

\* One accepted iteration of the loop of generate_cats (number = 1).
generate_cats(f, draw) ==
    LET pos == new_cat_position(draw)
    IN  [f EXCEPT ![pos[1]][pos[2]].data = CAT_SYMBOL]

\* generate_obstacles without its test for an Empty cell.
obstacle_draw_accepted_bad(f, draw) == draw \in AllObstacleDraws

\* The `continue` test of generate_obstacles: TRUE when the draw is kept.
obstacle_draw_accepted(f, draw) == ~ (f[draw[1]][draw[2]].data # EMPTY_SYMBOL)

\* One accepted iteration of the loop of generate_obstacles.
generate_obstacles(f, draw) ==
    [f EXCEPT ![draw[1]][draw[2]].data = OBSTACLE_SYMBOL]

\* The draws the loop of generate_cats can end with: a draw it rejects is
\* followed by another draw.
AcceptedCatDraws(f, draws) ==
    IF \E d \in draws : cat_draw_accepted(f, d)
    THEN {d \in draws : cat_draw_accepted(f, d)}
    ELSE {d \in AllCatDraws : cat_draw_accepted(f, d)}

\* The draws the loop of generate_obstacles can end with.
AcceptedObstacleDraws(f, draws) ==
    IF \E d \in draws : obstacle_draw_accepted(f, d)
    THEN {d \in draws : obstacle_draw_accepted(f, d)}
    ELSE {d \in AllObstacleDraws : obstacle_draw_accepted(f, d)}

\* The match statement of move_objects; rnd holds the random values the
\* chosen branch consumes (two rows, or the picks of generate_row).
shift_objects(f0, direction, rnd) ==
    CASE direction = "left" ->
           LET s == [row \in Idx |-> [col \in Idx |->
                      IF col < FIELD_SIZE - 1
                      THEN [f0[row][col + 1] EXCEPT !.y = @ - 1]
                      ELSE [Position(row, FIELD_SIZE, EMPTY_SYMBOL)
                              EXCEPT !.y = @ - 1]]]
               s1 == [s EXCEPT ![rnd[1]][FIELD_SIZE - 1].data = OBSTACLE_SYMBOL]
           IN  [s1 EXCEPT ![rnd[2]][FIELD_SIZE - 1].data = OBSTACLE_SYMBOL]
      [] direction = "right" ->
           LET s == [row \in Idx |-> [col \in Idx |->
                      IF col > 0
                      THEN [f0[row][col - 1] EXCEPT !.y = @ + 1]
                      ELSE [Position(row, -1, EMPTY_SYMBOL)
                              EXCEPT !.y = @ + 1]]]
               s1 == [s EXCEPT ![rnd[1]][0].data = OBSTACLE_SYMBOL]
           IN  [s1 EXCEPT ![rnd[2]][0].data = OBSTACLE_SYMBOL]
      [] direction = "up" ->
           [row \in Idx |->
              IF row < FIELD_SIZE - 1
              THEN [col \in Idx |->
                      IF col < FIELD_SIZE - 1
                      THEN [f0[row + 1][col] EXCEPT !.x = @ - 1]
                      ELSE f0[row + 1][col]]
              ELSE generate_row(FIELD_SIZE - 1, rnd)]
      [] direction = "down" ->
           [row \in Idx |->
              IF row > 0
              THEN [col \in Idx |->
                      IF col < FIELD_SIZE - 1
                      THEN [f0[row - 1][col] EXCEPT !.x = @ + 1]
                      ELSE f0[row - 1][col]]
              ELSE generate_row(0, rnd)]
      [] OTHER -> f0

\* move_objects that leaves the player's symbol on the cell it shifts away.
move_objects_keeps_player(f, direction, rnd) ==
    [shift_objects(f, direction, rnd)
        EXCEPT ![MIDDLE_POS][MIDDLE_POS].data = PLAYER_SYMBOL]

move_objects(f, direction, rnd) ==
    [shift_objects([f EXCEPT ![MIDDLE_POS][MIDDLE_POS].data = EMPTY_SYMBOL],
                   direction, rnd)
        EXCEPT ![MIDDLE_POS][MIDDLE_POS].data = PLAYER_SYMBOL]

\* The loop body of move_cat without its test for an Empty cell.
check_position_any_cell(f, cur, position) ==
    LET x == position[1]
        y == position[2]
    IN  IF x < 0 \/ x >= FIELD_SIZE \/ y < 0 \/ y >= FIELD_SIZE THEN cur
        ELSE LET new_distance == manhattan(f[MIDDLE_POS][MIDDLE_POS], position)
             IN  IF new_distance < cur.dist
                 THEN [pos |-> position, dist |-> new_distance]
                 ELSE cur

\* One iteration of the loop of move_cat over positions_to_check[1:]:
\* cur = [pos, dist] is (current_position, current_distance).
check_position(f, cur, position) ==
    LET x == position[1]
        y == position[2]
    IN  IF x < 0 \/ x >= FIELD_SIZE \/ y < 0 \/ y >= FIELD_SIZE THEN cur
        ELSE IF f[x][y].data # EMPTY_SYMBOL THEN cur
        ELSE LET new_distance == manhattan(f[MIDDLE_POS][MIDDLE_POS], position)
             IN  IF new_distance < cur.dist
                 THEN [pos |-> position, dist |-> new_distance]
                 ELSE cur

\* The cell move_cat puts the cat on.
cat_destination(f, cat_row, cat_column) ==
    LET c0 == [pos |-> <<cat_row, cat_column>>,
               dist |-> manhattan(f[MIDDLE_POS][MIDDLE_POS], <<cat_row, cat_column>>)]
        c1 == check_position(f, c0, <<cat_row, cat_column - 1>>)
        c2 == check_position(f, c1, <<cat_row, cat_column + 1>>)
        c3 == check_position(f, c2, <<cat_row - 1, cat_column>>)
        c4 == check_position(f, c3, <<cat_row + 1, cat_column>>)
    IN  c4.pos

\* move_cat that does not empty the cell the cat leaves.
move_cat_leaves_trail(f, cat_row, cat_column) ==
    LET current_position == cat_destination(f, cat_row, cat_column)
    IN  [f EXCEPT ![current_position[1]][current_position[2]].data = CAT_SYMBOL]

move_cat(f, cat_row, cat_column) ==
    LET current_position == cat_destination(f, cat_row, cat_column)
        f1 == [f EXCEPT ![cat_row][cat_column].data = EMPTY_SYMBOL]
    IN  [f1 EXCEPT ![current_position[1]][current_position[2]].data = CAT_SYMBOL]

is_game_over(f) ==
    \E i \in DOMAIN POSITIONS_TO_CHECK_CATS :
        f[POSITIONS_TO_CHECK_CATS[i][1]][POSITIONS_TO_CHECK_CATS[i][2]].data = CAT_SYMBOL

\* The cell move_player tests before it moves the objects.
cell_ahead(direction) ==
    CASE direction = "left"  -> <<MIDDLE_POS, MIDDLE_POS - 1>>
      [] direction = "right" -> <<MIDDLE_POS, MIDDLE_POS + 1>>
      [] direction = "up"    -> <<MIDDLE_POS - 1, MIDDLE_POS>>
      [] direction = "down"  -> <<MIDDLE_POS + 1, MIDDLE_POS>>

\* The test of move_player taking anything but an obstacle for a free cell.
is_direction_blocked_by_obstacle_only(f, direction) ==
    f[cell_ahead(direction)[1]][cell_ahead(direction)[2]].data # OBSTACLE_SYMBOL

is_direction_clear(f, direction) ==
    f[cell_ahead(direction)[1]][cell_ahead(direction)[2]].data = EMPTY_SYMBOL

\* move_player that moves the objects without looking at the cell ahead.
move_player_unchecked(f, direction, rnd) ==
    IF direction \notin DOMAIN DIRECTIONS
    THEN [raised |-> TRUE, field |-> f]
    ELSE [raised |-> FALSE, field |-> move_objects(f, DIRECTIONS[direction], rnd)]

\* move_player without its first test: no case of the match is taken.
move_player_unvalidated(f, direction, rnd) ==
    IF direction \notin DOMAIN DIRECTIONS
    THEN [raised |-> FALSE, field |-> f]
    ELSE IF is_direction_clear(f, direction)
         THEN [raised |-> FALSE, field |-> move_objects(f, DIRECTIONS[direction], rnd)]
         ELSE [raised |-> FALSE, field |-> f]

\* move_player: the field it leaves and whether it raised ValueError.
move_player(f, direction, rnd) ==
    IF direction \notin DOMAIN DIRECTIONS
    THEN [raised |-> TRUE, field |-> f]
    ELSE IF is_direction_clear(f, direction)
         THEN [raised |-> FALSE, field |-> move_objects(f, DIRECTIONS[direction], rnd)]
         ELSE [raised |-> FALSE, field |-> f]

\* The random values move_objects(direction) consumes.
ShiftDraws(direction, rows, picks) ==
    IF direction \in {"left", "right"} THEN rows ELSE picks

(***************************************************************************)
(* State.                                                                  *)
(***************************************************************************)
VARIABLES
    field,       \* GameField.field_data of the player's game
    pc,          \* where the handler stands
    scan,        \* proceed_cats_turn: row-major index of the next cell to test
    generated,   \* generate_obstacles: obstacles_generated
    turns,       \* turns played on this board
    outcome,     \* message of the last turn: "none", "Continuing", "Over"
    h,           \* what the current turn has done so far (history)
    saved        \* the board pickled in data/<chat_id>.pkl, <<>> when no file

vars == <<field, pc, scan, generated, turns, outcome, h, saved>>

NoHistory ==
    [dir |-> "none", start |-> <<>>, shifted |-> FALSE, afterMove |-> <<>>,
     steps |-> <<>>, sawCat |-> FALSE, returnedEarly |-> FALSE,
     beforeSpawn |-> <<>>, raised |-> FALSE,
     prevDir |-> "none", prevShifted |-> FALSE, prevStart |-> <<>>]

\* The symbols of a field, without the stored coordinates.
Tags(f) == [row \in Idx |-> [col \in Idx |-> f[row][col].data]]

(***************************************************************************)
(* GameField.__init__, one loop iteration at a time.                       *)
(***************************************************************************)
Init ==
    /\ field = generate_clear
    /\ pc = "init_cats"
    /\ scan = 0
    /\ generated = 0
    /\ turns = 0
    /\ outcome = "none"
    /\ h = NoHistory
    /\ saved = <<>>

InitCats(draws) ==
    /\ pc = "init_cats"
    /\ \E d \in AcceptedCatDraws(field, draws) :
          field' = generate_cats(field, d)
    /\ pc' = "init_obstacles"
    /\ generated' = 0
    /\ UNCHANGED <<scan, turns, outcome, h, saved>>

InitObstacles(draws) ==
    /\ pc = "init_obstacles"
    /\ \E d \in AcceptedObstacleDraws(field, draws) :
          field' = generate_obstacles(field, d)
    /\ generated' = generated + 1
    /\ pc' = IF generated + 1 < obstacles_number THEN "init_obstacles" ELSE "idle"
    /\ UNCHANGED <<scan, turns, outcome, h, saved>>

\* proceed_message('/newgame'): GameField() replaces the board.
NewGame ==
    /\ pc = "idle"
    /\ field' = generate_clear
    /\ pc' = "init_cats"
    /\ scan' = 0
    /\ generated' = 0
    /\ turns' = 0
    /\ outcome' = "none"
    /\ h' = NoHistory
    /\ UNCHANGED saved

(***************************************************************************)
(* proceed_message('/left' | '/right' | '/up' | '/down')                   *)
(***************************************************************************)
MovePlayer(directions, rows, picks, limit) ==
    /\ pc = "idle"
    /\ turns < limit
    /\ \E direction \in directions :
       \E rnd \in ShiftDraws(DIRECTIONS[direction], rows, picks) :
          LET r == move_player(field, direction, rnd)
          IN  /\ field' = r.field
              /\ h' = [NoHistory EXCEPT
                         !.dir = direction,
                         !.start = Tags(field),
                         !.shifted = is_direction_clear(field, direction),
                         !.afterMove = Tags(r.field),
                         !.sawCat = is_game_over(r.field)]
    /\ pc' = "cats"
    /\ scan' = 0
    /\ turns' = turns + 1
    /\ outcome' = "none"
    /\ UNCHANGED <<generated, saved>>

\* The cells proceed_cats_turn has still to test, as row-major indices.
CatsAhead(f, from) ==
    {k \in from .. (FIELD_SIZE * FIELD_SIZE - 1) :
        f[k \div FIELD_SIZE][k % FIELD_SIZE].data = CAT_SYMBOL}

Min(S) == CHOOSE m \in S : \A n \in S : m <= n

\* proceed_cats_turn that never returns from inside its loops.
scan_goes_on_always(f) == TRUE

\* proceed_cats_turn after a call of move_cat: it returns when the game is
\* over and goes on with the next cell otherwise.
scan_goes_on(f) == ~is_game_over(f)

\* proceed_cats_turn up to and including its next call of move_cat, or to
\* the end of its loops when no cell ahead holds a cat.
CatStep ==
    /\ pc = "cats"
    /\ IF CatsAhead(field, scan) = {}
       THEN /\ pc' = "spawn"
            /\ h' = [h EXCEPT !.beforeSpawn = Tags(field)]
            /\ UNCHANGED <<field, scan>>
       ELSE LET k == Min(CatsAhead(field, scan))
                row == k \div FIELD_SIZE
                col == k % FIELD_SIZE
                f1 == move_cat(field, row, col)
                over == is_game_over(f1)
            IN  /\ field' = f1
                /\ scan' = k + 1
                /\ pc' = IF scan_goes_on(f1) THEN "cats" ELSE "spawn"
                /\ h' = [h EXCEPT
                           !.steps = Append(@, [before |-> Tags(field),
                                                from |-> <<row, col>>,
                                                to |-> cat_destination(field, row, col),
                                                target |-> field[cat_destination(field, row, col)[1]][cat_destination(field, row, col)[2]].data]),
                           !.sawCat = @ \/ over,
                           !.returnedEarly = over,
                           !.beforeSpawn = IF over THEN Tags(f1) ELSE @]
    /\ UNCHANGED <<generated, turns, outcome, saved>>

\* generate_cats(), then the is_game_over() that picks the message.
Spawn(draws) ==
    /\ pc = "spawn"
    /\ \E d \in AcceptedCatDraws(field, draws) :
          /\ field' = generate_cats(field, d)
          /\ outcome' = IF is_game_over(generate_cats(field, d))
                        THEN "Over" ELSE "Continuing"
    /\ pc' = "idle"
    /\ UNCHANGED <<scan, generated, turns, h, saved>>

Next ==
    \/ InitCats(CatDraws)
    \/ InitObstacles(ObstacleDraws)
    \/ NewGame
    \/ MovePlayer(DOMAIN DIRECTIONS, RowDraws, RowPicks, MaxTurns)
    \/ CatStep
    \/ Spawn(CatDraws)

Spec == Init /\ [][Next]_vars

(***************************************************************************)
(* GameField() alone, over every value the random source can return.       *)
(***************************************************************************)
NextFresh ==
    \/ InitCats(AllCatDraws)
    \/ InitObstacles(AllObstacleDraws)

SpecFresh == Init /\ [][NextFresh]_vars

(***************************************************************************)
(* A player who keeps sending a direction that an obstacle blocks: no      *)
(* shift ever happens, the cats close in and a cat is spawned every turn.  *)
(***************************************************************************)
\* Row-major index of the cell a draw of generate_cats names.
DrawIndex(d) == new_cat_position(d)[1] * FIELD_SIZE + new_cat_position(d)[2]

\* The accepted draws that name one of the first n acceptable cells in
\* row-major order.
FirstAccepted(f, n) ==
    LET ok == {d \in AllCatDraws : cat_draw_accepted(f, d)}
    IN  {d \in ok :
           Cardinality({DrawIndex(e) : e \in {e \in ok : DrawIndex(e) < DrawIndex(d)}}) < n}

NextSiege ==
    \/ InitCats(SiegeCatDraws)
    \/ InitObstacles(SiegeObstacleDraws)
    \/ MovePlayer({"up"}, RowDraws, RowPicks, MaxSiegeTurns)
    \/ CatStep
    \/ Spawn(FirstAccepted(field, SiegeChoices))

SpecSiege == Init /\ [][NextSiege]_vars

(***************************************************************************)
(* GameField.move_player called on its own, with any token.                *)
(***************************************************************************)
Tokens == DOMAIN DIRECTIONS \cup {"stay", "LEFT", ""}

CallMovePlayer(rows, picks) ==
    /\ pc = "idle"
    /\ turns < MaxTurns
    /\ \E token \in Tokens :
       \E rnd \in (IF token \in DOMAIN DIRECTIONS
                   THEN ShiftDraws(DIRECTIONS[token], rows, picks) ELSE {<<>>}) :
          LET r == move_player(field, token, rnd)
          IN  /\ field' = r.field
              /\ h' = [NoHistory EXCEPT
                         !.dir = token,
                         !.start = Tags(field),
                         !.shifted = (token \in DOMAIN DIRECTIONS
                                        /\ is_direction_clear(field, token)),
                         !.afterMove = Tags(r.field),
                         !.raised = r.raised,
                         !.prevDir = h.dir,
                         !.prevShifted = h.shifted,
                         !.prevStart = h.start]
    /\ turns' = turns + 1
    /\ UNCHANGED <<pc, scan, generated, outcome, saved>>

NextMovePlayer ==
    \/ InitCats(CatDraws)
    \/ InitObstacles(ObstacleDraws)
    \/ CallMovePlayer(RowDraws, RowPicks)

SpecMovePlayer == Init /\ [][NextMovePlayer]_vars

(***************************************************************************)
(* Properties.                                                             *)
(***************************************************************************)
(* Bot.run for one chat: every handled message is followed by              *)
(* save_player_data; a process that ends before the save (send_message      *)
(* raises, nothing catches it) is followed by a new process, which loads    *)
(* the pickled board at the chat's next message, or builds a GameField()    *)
(* when there is no file.                                                   *)
(***************************************************************************)
\* The board the bot holds is the pickled one, or the chat has just got
\* its first board and the message that made the bot build it is still to
\* be handled.
MessageExpected ==
    \/ saved = field
    \/ saved = <<>> /\ turns = 0 /\ h.dir = "none"

\* run, a direction message: proceed_message plays the turn.
RunTurn(directions, rows, picks, limit) ==
    /\ MessageExpected
    /\ MovePlayer(directions, rows, picks, limit)

\* run, after proceed_message returned: save_player_data pickles the board.
SavePlayerData ==
    /\ pc = "idle"
    /\ saved' = field
    /\ UNCHANGED <<field, pc, scan, generated, turns, outcome, h>>

\* run in a new process, the chat's file exists: load_player_data puts the
\* unpickled board in place of the board the ended process held, which is
\* the board of before the turn when the turn was not saved.
LoadPlayerData ==
    /\ pc = "idle"
    /\ saved # <<>>
    /\ field' = saved
    /\ outcome' = "none"
    /\ h' = NoHistory
    /\ UNCHANGED <<pc, scan, generated, turns, saved>>

\* run in a new process, no file: load_player_data raises
\* FileNotFoundError and run builds a GameField().
RunFileNotFound ==
    /\ saved = <<>>
    /\ NewGame

\* One game per process, played downwards and to the left.
BotCatDraws == {<<2, 1>>, <<4, 3>>}

BotObstacleDraws == {<<1, 2>>, <<1, 1>>, <<4, 4>>}

NextBot ==
    \/ InitCats(BotCatDraws)
    \/ InitObstacles(BotObstacleDraws)
    \/ RunTurn({"down", "left"}, RowDraws, RowPicks, MaxTurns)
    \/ CatStep
    \/ Spawn(BotCatDraws)
    \/ SavePlayerData
    \/ LoadPlayerData
    \/ RunFileNotFound

SpecBot == Init /\ [][NextBot]_vars

\* Games whose first cat and spawned cats come on neighbouring cells of
\* the top edge, behind an obstacle that stands above the player.
CrowdCatDraws == {<<2, 1>>, <<3, 1>>}

CrowdObstacleDraws == {<<1, 2>>, <<1, 1>>, <<4, 4>>}

NextCrowd ==
    \/ InitCats(CrowdCatDraws)
    \/ InitObstacles(CrowdObstacleDraws)
    \/ NewGame
    \/ MovePlayer(DOMAIN DIRECTIONS, RowDraws, RowPicks, MaxTurns)
    \/ CatStep
    \/ Spawn(CrowdCatDraws)

SpecCrowd == Init /\ [][NextCrowd]_vars

(***************************************************************************)
Cells == Idx \X Idx

\* Manhattan distance of a grid cell to the centre cell of the grid.
TrueDist(pos) == Abs(pos[1] - MIDDLE_POS) + Abs(pos[2] - MIDDLE_POS)

NumCats(tags) == Cardinality({p \in Cells : tags[p[1]][p[2]] = CAT_SYMBOL})

\* A cat stands on one of the four cells next to the centre cell.
CatNextToPlayer(tags) ==
    \E p \in Cells : TrueDist(p) = 1 /\ tags[p[1]][p[2]] = CAT_SYMBOL

TurnDone == pc = "idle" /\ h.dir # "none"

\* C1: in every state, during construction, between turns and inside a
\* turn, the cell (MIDDLE_POS, MIDDLE_POS) holds the player and no other
\* cell does (so neither a cat nor an obstacle is ever on the centre).
C1_PlayerOnlyAtCentre ==
    \A p \in Cells :
        (field[p[1]][p[2]].data = PLAYER_SYMBOL) <=> (p = <<MIDDLE_POS, MIDDLE_POS>>)

C1_Witness == TurnDone /\ turns >= 2 /\ h.shifted

\* C2 as stated: after a whole turn in a blocked direction every cell has
\* the tag it had before the turn.
C2_BlockedTurnChangesNothing ==
    (TurnDone /\ ~ h.shifted) => Tags(field) = h.start

\* C2 amended: in a blocked direction move_player changes no cell (no
\* shift); the rest of the turn still runs, the cats are moved and one
\* cat is spawned, so the turn ends with one cat more than it started with.
C2_BlockedMoveChangesNothing ==
    (h.dir # "none" /\ ~ h.shifted) =>
        /\ h.afterMove = h.start
        /\ TurnDone => NumCats(Tags(field)) = NumCats(h.start) + 1

C2_Witness ==
    /\ TurnDone /\ ~ h.shifted
    /\ \E i \in DOMAIN h.steps : h.steps[i].to # h.steps[i].from

\* C3 as stated: a turn in which capture was detected (proceed_cats_turn
\* returned on is_game_over, or the turn is reported Over) spawns no cat.
C3_CaptureSkipsSpawn ==
    (TurnDone /\ (h.returnedEarly \/ outcome = "Over")) =>
        NumCats(Tags(field)) = NumCats(h.beforeSpawn)

\* C4: is_game_over is true exactly when a cat stands on a cell at
\* Manhattan distance 1 from the centre, and the outcome a turn reports
\* is Over exactly on such boards.
C4_GameOverIffCatAdjacent ==
    /\ is_game_over(field) <=> CatNextToPlayer(Tags(field))
    /\ TurnDone => ((outcome = "Over") <=> CatNextToPlayer(Tags(field)))

\* a cat on a diagonal neighbour, an obstacle next to the player, a cat two
\* steps away in a straight line: not game over
C4_Witness ==
    /\ TurnDone /\ outcome = "Continuing"
    /\ \E p \in Cells : /\ TrueDist(p) = 1
                       /\ field[p[1]][p[2]].data = OBSTACLE_SYMBOL
    /\ \E p \in Cells : /\ TrueDist(p) = 2
                       /\ field[p[1]][p[2]].data = CAT_SYMBOL

\* C6 as stated: a pursuit step leaves the cat where it is, or puts it on
\* a cell that was Empty and is strictly closer to the centre cell.
C6_CatNeverMovesAway ==
    \A i \in DOMAIN h.steps :
        \/ h.steps[i].to = h.steps[i].from
        \/ /\ h.steps[i].target = EMPTY_SYMBOL
           /\ TrueDist(h.steps[i].to) < TrueDist(h.steps[i].from)

\* The cell the content of cell p is on after the player moved in direction d.
ShiftTarget(p, d) ==
    CASE d = "left"  -> <<p[1], p[2] + 1>>
      [] d = "right" -> <<p[1], p[2] - 1>>
      [] d = "up"    -> <<p[1] + 1, p[2]>>
      [] d = "down"  -> <<p[1] - 1, p[2]>>

\* C8: after a move in a clear direction d the content of every cell is one
\* step further in the direction opposite to d, when that cell is on the
\* board; the cell the player left is Empty and the cell it stepped onto is
\* the centre.
C8_WorldShiftsOpposite ==
    (h.dir # "none" /\ h.shifted) =>
        \A p \in Cells :
            LET t == ShiftTarget(p, h.dir)
            IN  t \in Cells =>
                  IF p = <<MIDDLE_POS, MIDDLE_POS>>
                  THEN h.afterMove[t[1]][t[2]] = EMPTY_SYMBOL
                  ELSE IF t = <<MIDDLE_POS, MIDDLE_POS>>
                  THEN /\ p = cell_ahead(h.dir)
                       /\ h.start[p[1]][p[2]] = EMPTY_SYMBOL
                       /\ h.afterMove[t[1]][t[2]] = PLAYER_SYMBOL
                  ELSE h.afterMove[t[1]][t[2]] = h.start[p[1]][p[2]]

C8_Witness ==
    /\ pc = "cats" /\ h.steps = <<>> /\ h.shifted /\ h.dir = "left"
    /\ \E p \in Cells : /\ p[2] < FIELD_SIZE - 1
                       /\ h.start[p[1]][p[2]] = CAT_SYMBOL
                       /\ h.afterMove[p[1]][p[2] + 1] = CAT_SYMBOL

\* C9 as stated: a turn in which a cat stood next to the player right
\* after the shift or after a cat's move is reported Over.
C9_AdjacentCatMeansOver ==
    (TurnDone /\ h.sawCat) => outcome = "Over"

\* C5 as stated: whenever generate_cats runs, some draw is accepted (an
\* edge cell is Empty and far enough from the centre), and whenever
\* generate_obstacles runs some cell is Empty: the retry loops can finish.
C5_PlacementLoopsCanFinish ==
    /\ pc \in {"init_cats", "spawn"} =>
          \E d \in AllCatDraws : cat_draw_accepted(field, d)
    /\ pc = "init_obstacles" =>
          \E d \in AllObstacleDraws : obstacle_draw_accepted(field, d)

\* The cells on the four edges of the board.
EdgeCells ==
    {p \in Cells : p[1] \in {0, FIELD_SIZE - 1} \/ p[2] \in {0, FIELD_SIZE - 1}}

\* C7: a board GameField() has just built has the player on the centre,
\* one cat, on an edge cell at distance >= 2 from the centre, three
\* obstacles, every other cell Empty, and is not game over.
C7_FreshBoard ==
    (pc = "idle" /\ turns = 0) =>
        LET cats == {p \in Cells : field[p[1]][p[2]].data = CAT_SYMBOL}
            obstacles == {p \in Cells : field[p[1]][p[2]].data = OBSTACLE_SYMBOL}
            players == {p \in Cells : field[p[1]][p[2]].data = PLAYER_SYMBOL}
        IN  /\ players = {<<MIDDLE_POS, MIDDLE_POS>>}
            /\ Cardinality(cats) = 1
            /\ \A p \in cats : p \in EdgeCells /\ TrueDist(p) >= 2
            /\ Cardinality(obstacles) = 3
            /\ \A p \in Cells \ (cats \cup obstacles \cup players) :
                   field[p[1]][p[2]].data = EMPTY_SYMBOL
            /\ ~ is_game_over(field)

\* a fresh board with an obstacle on each side of the cat's cell
C7_Witness ==
    /\ pc = "idle" /\ turns = 0
    /\ field[0][0].data = CAT_SYMBOL
    /\ field[0][1].data = OBSTACLE_SYMBOL
    /\ field[1][0].data = OBSTACLE_SYMBOL

\* C10: move_player raises on a token that is no direction and leaves
\* the board as it was; on each of the four directions it does not raise.
C10_InvalidDirectionRejected ==
    h.dir # "none" =>
        IF h.dir \in {"left", "right", "up", "down"}
        THEN ~ h.raised
        ELSE h.raised /\ h.afterMove = h.start /\ Tags(field) = h.start

C10_Witness == h.dir = "stay" /\ h.raised /\ turns >= 2

\* C11: move_player("down") then move_player("up"), both in a clear
\* direction, i.e. move_objects("up") followed by move_objects("down"):
\* the rows that stayed on the board (rows 1 .. FIELD_SIZE - 1) are as
\* they were before the two shifts, and row 0, which left the board, is a
\* freshly generated row: Empty cells and between one and FIELD_SIZE // 3
\* obstacles.  The witness is a board whose layout the round trip changed.
C11_RoundTripRegeneratesEdge ==
    (h.dir = "up" /\ h.shifted /\ h.prevDir = "down" /\ h.prevShifted) =>
        /\ \A p \in Cells : p[1] >= 1 => Tags(field)[p[1]][p[2]] = h.prevStart[p[1]][p[2]]
        /\ \A col \in Idx : field[0][col].data \in {EMPTY_SYMBOL, OBSTACLE_SYMBOL}
        /\ LET n == Cardinality({col \in Idx : field[0][col].data = OBSTACLE_SYMBOL})
           IN  1 <= n /\ n <= FIELD_SIZE \div 3

C11_Witness ==
    /\ h.dir = "up" /\ h.shifted /\ h.prevDir = "down" /\ h.prevShifted
    /\ Tags(field) # h.prevStart
    /\ \E col \in Idx : h.prevStart[0][col] = CAT_SYMBOL

\* C12 as stated: in one pass of proceed_cats_turn no cat is moved twice:
\* the cell a cat was put on by move_cat is not the starting cell of a
\* later call of move_cat in the same pass, so every cat ends the pass at
\* most one step from where it started.
C12_EachCatMovedOnce ==
    \A i, j \in DOMAIN h.steps :
        i < j => h.steps[j].from # h.steps[i].to

\* C13: proceed_cats_turn goes on to a further cell only while no cat is
\* next to the player (so the pass stops at the first move after which the
\* game is over), and at every point of the pass the cells that differ from
\* the board the pass started with are cells a processed cat left or entered.
C13_ScanStopsAtCapture ==
    /\ (pc = "cats" /\ h.steps # <<>>) => ~CatNextToPlayer(Tags(field))
    /\ (pc \in {"cats", "spawn"}) =>
          \A p \in Cells :
              field[p[1]][p[2]].data # h.afterMove[p[1]][p[2]] =>
                  \E i \in DOMAIN h.steps : p = h.steps[i].from \/ p = h.steps[i].to

\* The pass returned early and a cat later in row-major order, which no
\* call of move_cat touched, would have moved had it been processed.
C13_Witness ==
    /\ pc = "spawn" /\ h.returnedEarly
    /\ \E k \in CatsAhead(field, scan) :
          LET p == <<k \div FIELD_SIZE, k % FIELD_SIZE>>
          IN  /\ \A i \in DOMAIN h.steps : h.steps[i].to # p
              /\ h.afterMove[p[1]][p[2]] = CAT_SYMBOL
              /\ cat_destination(field, p[1], p[2]) # p

\* The destination the rule "first of left, right, up, down that is on the
\* board, Empty and strictly closer to the centre cell, else stay" gives.
ClaimedDestination(tags, from) ==
    LET cand == << <<from[1], from[2] - 1>>, <<from[1], from[2] + 1>>,
                   <<from[1] - 1, from[2]>>, <<from[1] + 1, from[2]>> >>
        ok(i) == /\ cand[i] \in Cells
                 /\ tags[cand[i][1]][cand[i][2]] = EMPTY_SYMBOL
                 /\ TrueDist(cand[i]) < TrueDist(from)
    IN  IF \E i \in 1 .. 4 : ok(i)
        THEN cand[Min({i \in 1 .. 4 : ok(i)})]
        ELSE from

\* C14 as stated: every call of move_cat puts the cat on the first of the
\* cells left, right, up, down of it that is on the board, Empty and
\* strictly closer to the centre cell than the cat's cell, and leaves the
\* cat where it is when there is no such cell.
C14_FirstCloserCell ==
    \A i \in DOMAIN h.steps :
        h.steps[i].to = ClaimedDestination(h.steps[i].before, h.steps[i].from)

\* The cell whose content is on cell p after the player moved in direction
\* d: one step from p in direction d.
ShiftSource(p, d) ==
    <<2 * p[1] - ShiftTarget(p, d)[1], 2 * p[2] - ShiftTarget(p, d)[2]>>

\* The cell next to the centre in direction d.
CellAheadOf(d) == ShiftSource(<<MIDDLE_POS, MIDDLE_POS>>, d)

\* The cells no old cell is shifted onto by a move in direction d: the edge
\* line the shift introduces.
NewLine(d) == {p \in Cells : ShiftSource(p, d) \notin Cells}

\* The cells whose content a move in direction d shifts off the board.
DepartingLine(d) == {q \in Cells : ShiftTarget(q, d) \notin Cells}

\* move_player has just returned: the cat pass has not started.
AfterMovePlayer == pc = "cats" /\ h.steps = <<>> /\ h.dir \in DOMAIN DIRECTIONS

\* C15: move_player shifts the board exactly when the one cell next to the
\* centre in the requested direction is Empty (then every cell's content
\* is one step further, the player's old cell is Empty and the player is on
\* the centre); when that cell holds an obstacle or a cat no cell changes,
\* whatever the other cells hold.
C15_ShiftIffAheadEmpty ==
    AfterMovePlayer =>
        LET a == CellAheadOf(h.dir)
            c == <<MIDDLE_POS, MIDDLE_POS>>
            back == ShiftTarget(c, h.dir)
        IN  IF h.start[a[1]][a[2]] = EMPTY_SYMBOL
            THEN /\ h.afterMove[c[1]][c[2]] = PLAYER_SYMBOL
                 /\ h.afterMove[back[1]][back[2]] = EMPTY_SYMBOL
                 /\ \A q \in Cells \ {a, c} :
                       LET t == ShiftTarget(q, h.dir)
                       IN  t \in Cells => h.afterMove[t[1]][t[2]] = h.start[q[1]][q[2]]
            ELSE h.afterMove = h.start

\* A move against a cat: the cell ahead holds a cat and nothing changed,
\* while another cell next to the centre was Empty.
C15_Witness ==
    /\ AfterMovePlayer
    /\ h.start[CellAheadOf(h.dir)[1]][CellAheadOf(h.dir)[2]] = CAT_SYMBOL
    /\ h.afterMove = h.start
    /\ \E d \in DOMAIN DIRECTIONS :
          h.start[CellAheadOf(d)[1]][CellAheadOf(d)[2]] = EMPTY_SYMBOL

\* C16 as stated: in every state each Position object's stored coordinates
\* are its indices in the grid: field[r][c] has x = r and y = c.
C16_StoredCoordinatesAgree ==
    \A p \in Cells : field[p[1]][p[2]].x = p[1] /\ field[p[1]][p[2]].y = p[2]

\* C17: right after a move in a clear direction the edge line the shift
\* introduced holds only Empty cells and obstacles, at least one obstacle,
\* and at most FIELD_SIZE // 3 obstacles after a vertical shift and at most
\* two after a horizontal shift.
C17_NewEdgeLine ==
    (/\ AfterMovePlayer
     /\ h.start[CellAheadOf(h.dir)[1]][CellAheadOf(h.dir)[2]] = EMPTY_SYMBOL) =>
        LET n == Cardinality({p \in NewLine(h.dir) :
                                h.afterMove[p[1]][p[2]] = OBSTACLE_SYMBOL})
        IN  /\ \A p \in NewLine(h.dir) :
                  h.afterMove[p[1]][p[2]] \in {EMPTY_SYMBOL, OBSTACLE_SYMBOL}
            /\ 1 <= n
            /\ n <= (IF h.dir \in {"up", "down"} THEN FIELD_SIZE \div 3 ELSE 2)

\* A horizontal shift whose new column got two obstacles and replaced a
\* column that held a cat.
C17_Witness ==
    /\ pc = "cats" /\ h.steps = <<>> /\ h.dir = "right" /\ h.shifted
    /\ Cardinality({p \in NewLine("right") :
                      h.afterMove[p[1]][p[2]] = OBSTACLE_SYMBOL}) = 2
    /\ \E p \in NewLine("right") : h.start[p[1]][p[2]] = CAT_SYMBOL

\* C18: the generate_cats of a turn changes one cell only, an edge cell
\* that was Empty and is at Manhattan distance >= 2 from the centre cell,
\* which becomes a cat; and a board that was not game over before the
\* spawn is not game over after it.
C18_SpawnOnFreeEdgeCell ==
    TurnDone =>
        /\ \E p \in EdgeCells :
              /\ h.beforeSpawn[p[1]][p[2]] = EMPTY_SYMBOL
              /\ TrueDist(p) >= 2
              /\ field[p[1]][p[2]].data = CAT_SYMBOL
              /\ \A q \in Cells \ {p} : field[q[1]][q[2]].data = h.beforeSpawn[q[1]][q[2]]
        /\ CatNextToPlayer(Tags(field)) => CatNextToPlayer(h.beforeSpawn)

\* A spawn on a board that is not game over and whose edge already held a
\* cat and an obstacle.
C18_Witness ==
    /\ TurnDone /\ ~CatNextToPlayer(Tags(field))
    /\ \E p \in EdgeCells : h.beforeSpawn[p[1]][p[2]] = CAT_SYMBOL
    /\ \E p \in EdgeCells : h.beforeSpawn[p[1]][p[2]] = OBSTACLE_SYMBOL

\* C19: every cell a cat is moved onto was Empty on the board as it stood
\* when that cat was processed, with the moves of the cats processed before
\* it already made: a cell an earlier cat stands on is never chosen.  The
\* witness is a pass in which a cat moves onto the cell the cat processed
\* just before it had left.
C19_SequentialVisibility ==
    \A j \in DOMAIN h.steps :
        h.steps[j].to # h.steps[j].from =>
            /\ h.steps[j].before[h.steps[j].to[1]][h.steps[j].to[2]] = EMPTY_SYMBOL
            /\ \A i \in 1 .. (j - 1) :
                  h.steps[j].before[h.steps[i].to[1]][h.steps[i].to[2]] = CAT_SYMBOL
                      => h.steps[j].to # h.steps[i].to

C19_Witness ==
    \E i \in DOMAIN h.steps :
        /\ i + 1 \in DOMAIN h.steps
        /\ h.steps[i].to # h.steps[i].from
        /\ h.steps[i + 1].from # h.steps[i].to
        /\ h.steps[i + 1].to = h.steps[i].from
        /\ h.afterMove[h.steps[i].from[1]][h.steps[i].from[2]] = CAT_SYMBOL
        /\ h.afterMove[h.steps[i + 1].from[1]][h.steps[i + 1].from[2]] = CAT_SYMBOL

\* The number of cats a move in direction h.dir shifts off the board: the
\* cats of the departing edge line when the cell ahead was Empty, else none.
DepartedCats ==
    IF h.start[CellAheadOf(h.dir)[1]][CellAheadOf(h.dir)[2]] = EMPTY_SYMBOL
    THEN Cardinality({q \in DepartingLine(h.dir) : h.start[q[1]][q[2]] = CAT_SYMBOL})
    ELSE 0

\* C20: a move in a clear direction removes exactly the cats of the
\* departing edge line and every other cat is a cat one step further (a
\* blocked move removes none); the cat pass never changes the number of
\* cats; a completed turn has the cats it started with, minus the departed
\* ones, plus the one spawned.
C20_CatsConserved ==
    (h.dir \in DOMAIN DIRECTIONS) =>
        /\ AfterMovePlayer => NumCats(h.afterMove) = NumCats(h.start) - DepartedCats
        /\ (AfterMovePlayer /\ h.shifted) =>
              \A q \in Cells \ DepartingLine(h.dir) :
                  h.start[q[1]][q[2]] = CAT_SYMBOL =>
                      h.afterMove[ShiftTarget(q, h.dir)[1]][ShiftTarget(q, h.dir)[2]] = CAT_SYMBOL
        /\ pc \in {"cats", "spawn"} =>
              Cardinality({p \in Cells : field[p[1]][p[2]].data = CAT_SYMBOL})
                  = NumCats(h.afterMove)
        /\ pc = "idle" =>
              Cardinality({p \in Cells : field[p[1]][p[2]].data = CAT_SYMBOL})
                  = NumCats(h.start) - DepartedCats + 1

\* A completed turn that shifted a cat off the board, kept another cat and
\* moved it.
C20_Witness ==
    /\ TurnDone /\ h.shifted /\ DepartedCats >= 1
    /\ NumCats(h.afterMove) >= 1
    /\ \E i \in DOMAIN h.steps : h.steps[i].to # h.steps[i].from

\* C21 as stated: in every state the Position object on the centre cell has
\* stored coordinates x = MIDDLE_POS and y = MIDDLE_POS, so the distance
\* manhattan computes from it to any cell is that cell's grid distance to
\* the centre cell.
C21_CentreCoordinatesTrue ==
    /\ field[MIDDLE_POS][MIDDLE_POS].x = MIDDLE_POS
    /\ field[MIDDLE_POS][MIDDLE_POS].y = MIDDLE_POS
    /\ \A p \in Cells : manhattan(field[MIDDLE_POS][MIDDLE_POS], p) = TrueDist(p)

====
